---- MODULE Spec2Model ----
(***************************************************************************)
(* calculate_log_probability (src/src/kmers.cpp): the Laplace-smoothed     *)
(* log-probability matrix of k-mer counts per genus.                       *)
(*                                                                         *)
(* Numbers.  A double is modelled exactly as a decimal with one fractional *)
(* digit, [whole |-> w, frac |-> f] standing for w + f/10 with f in 0..9   *)
(* (so w is the floor).  An int is a 32-bit signed integer.  The result of *)
(* log() is kept symbolic: ln of a positive rational in lowest terms, or   *)
(* one of the IEEE-754 special values.  Non-finite inputs are not modelled.*)
(***************************************************************************)
EXTENDS Integers, Sequences, FiniteSets

\* ------------------------------------------------------------------ bounds
MaxKmers == 2
MaxGenera == 2
MaxCalls == 2

\* --------------------------------------------------------------- constants
\* INT_MAX of the 32-bit int that holds genus_count_plus1
IntMax == 2147483647
IntMin == (-IntMax) - 1

\* ----------------------------------------------------------------- doubles
D(w, f) == [whole |-> w, frac |-> f]

\* the literal 1 of "genus_counts[j] + 1", promoted to double
One == D(1, 0)

\* double + double (exact on one-digit decimals)
DAdd(a, b) ==
  LET f == a.frac + b.frac
  IN  [whole |-> a.whole + b.whole + (f \div 10), frac |-> f % 10]

\* the value of a double in tenths
Deci(x) == x.whole * 10 + x.frac

\* floating-integral conversion of an in-range double: the fractional part is
\* discarded (truncation toward zero)
Trunc(x) == IF x.whole >= 0 \/ x.frac = 0 THEN x.whole ELSE x.whole + 1

\* what an out-of-range double-to-int conversion leaves in the int: the
\* x86 "integer indefinite" value or the saturated value (AArch64)
UBIntOutcomes == {IntMin, IntMax}

\* round to nearest, halves up
Rounded(x) == IF x.frac >= 5 THEN x.whole + 1 ELSE x.whole

\* variant: the sum is rounded to the nearest int instead of truncated
GenusCountPlus1_Rounded(g) ==
  IF g.whole >= IntMax THEN UBIntOutcomes ELSE {Rounded(DAdd(g, One))}

\* variant: the total is converted to int first and 1 is added to the int
GenusCountPlus1_TruncateFirst(g) ==
  IF g.whole >= IntMax THEN UBIntOutcomes ELSE {Trunc(g) + 1}

\* int genus_count_plus1 = genus_counts[j] + 1;   for the double g read from
\* genus_counts[j]: the sum is formed in double and then converted to int;
\* the conversion is undefined when the truncated sum is not an int
GenusCountPlus1(g) ==
  IF g.whole >= IntMax THEN UBIntOutcomes ELSE {Trunc(DAdd(g, One))}

\* ------------------------------------------------------- results of log()
NaN == [kind |-> "nan"]
NegInf == [kind |-> "-inf"]
PosInf == [kind |-> "+inf"]

RECURSIVE Gcd(_, _)
Gcd(a, b) == IF b = 0 THEN a ELSE Gcd(b, a % b)

NegAbs(x) == IF x > 0 THEN -x ELSE x

\* ln(n / (10 * d)) for n > 0 tenths and d # 0 of any sign taken by magnitude;
\* the argument is num / (scale * (-negden)) in lowest terms (the magnitude
\* of the denominator is kept negated so that 2^31 is representable)
Ln(n, d) ==
  LET nd == NegAbs(d)
      g1 == Gcd(n, (n - (nd % n)) % n)
      n1 == n \div g1
      g2 == Gcd(10, n1 % 10)
  IN  [kind |-> "ln", num |-> n1 \div g2, scale |-> 10 \div g2,
       negden |-> nd \div g1]

\* variant: a zero numerator is tested before the division, so that 0/0
\* gives negative infinity too
LogOfQuotient_ZeroFirst(sum, d) ==
  LET n == Deci(sum)
  IN  IF n = 0 THEN NegInf
      ELSE IF d = 0 THEN (IF n > 0 THEN PosInf ELSE NaN)
      ELSE IF (n > 0) # (d > 0) THEN NaN
      ELSE Ln(IF n > 0 THEN n ELSE -n, d)

\* log(sum / d) for the double sum and the int d (converted to double):
\* IEEE-754 division, then log
LogOfQuotient(sum, d) ==
  LET n == Deci(sum)
  IN  IF d = 0
        THEN IF n > 0 THEN PosInf ELSE NaN
        ELSE IF n = 0 THEN NegInf
        ELSE IF (n > 0) # (d > 0) THEN NaN
        ELSE Ln(IF n > 0 THEN n ELSE -n, d)

\* 0.0, the fill of a fresh NumericMatrix: the double that is also ln(1)
Zero == Ln(10, 1)

\* ---------------------------------------------------------------- matrices
\* an Rcpp matrix: dimensions and a column-major vector of nrow*ncol cells
Matrix(nr, nc, cells) == [nrow |-> nr, ncol |-> nc, data |-> cells]

\* variant: the dimensions are passed in the wrong order
NewMatrix_Transposed(nr, nc) == Matrix(nc, nr, [k \in 1..(nr * nc) |-> Zero])

\* NumericMatrix(nr, nc): zero-filled
NewMatrix(nr, nc) == Matrix(nr, nc, [k \in 1..(nr * nc) |-> Zero])

\* m(i, j), 0-based
MatGet(m, i, j) == m.data[i + j * m.nrow + 1]

\* m(i, j) = v
MatSet(m, i, j, v) ==
  [m EXCEPT !.data = [@ EXCEPT ![i + j * m.nrow + 1] = v]]

\* what an out-of-bounds read of a vector can return
Garbage == {D(0, 0), D(7, 3)}

\* v[idx] / v(idx), 0-based and unchecked: the element, or whatever lies
\* behind the vector's storage
ReadVec(v, idx) == IF idx < Len(v) THEN {v[idx + 1]} ELSE Garbage

\* ---------------------------------------------------------------- inputs
CountValues == {D(0, 0), D(2, 0)}
PriorValues == {D(-1, 5), D(0, 0), D(0, 5)}
GenusValues == {D(-3, 5), D(-2, 5), D(-1, 5), D(4, 0), D(4, 9),
                D(IntMax - 1, 0), D(IntMax, 5)}

SeqsUpTo(S, n) == UNION {[1..k -> S] : k \in 0..n}

Matrices ==
  UNION {{Matrix(nr, nc, c) : c \in [1..(nr * nc) -> CountValues]} :
           nr \in 0..MaxKmers, nc \in 0..MaxGenera}

Vectors(S, n) == SeqsUpTo(S, n)

\* the inputs callers pass when the returned matrices are being recorded
RepeatMatrices ==
  UNION {{Matrix(nr, nc, c) : c \in [1..(nr * nc) -> {D(2, 0)}]} :
           nr \in 0..1, nc \in 0..1}
RepeatPriors == SeqsUpTo({D(0, 5)}, 1)
RepeatGenus == SeqsUpTo({D(4, 0), D(IntMax, 5)}, 1)

\* ------------------------------------------------------------------- state
VARIABLES
  kmer_genus_count,      \* argument: the count matrix
  word_specific_priors,  \* argument: the priors vector
  genus_counts,          \* argument: the genus totals vector
  n_kmers, n_genera,     \* locals, lines 21-22
  log_probs,             \* local, line 25; the return value
  j, i,                  \* loop counters
  genus_count_plus1,     \* local, line 30
  pc,                    \* "idle", "entry", "outer", "inner", "done", "crashed"
  writes,                \* history: how often each cell of log_probs was assigned
  recording,             \* whether the caller keeps what the calls returned
  returned               \* history: arguments and result of the calls so far

args == <<kmer_genus_count, word_specific_priors, genus_counts>>
locals == <<n_kmers, n_genera, log_probs, j, i, genus_count_plus1>>
vars == <<kmer_genus_count, word_specific_priors, genus_counts, n_kmers,
          n_genera, log_probs, j, i, genus_count_plus1, pc, writes,
          recording, returned>>

NoMatrix == Matrix(0, 0, <<>>)

InitCommon ==
  /\ kmer_genus_count = NoMatrix
  /\ word_specific_priors = <<>>
  /\ genus_counts = <<>>
  /\ n_kmers = 0
  /\ n_genera = 0
  /\ log_probs = NoMatrix
  /\ j = 0
  /\ i = 0
  /\ genus_count_plus1 = 0
  /\ pc = "idle"
  /\ writes = <<>>
  /\ returned = <<>>

Init == InitCommon /\ recording = FALSE

InitRepeat == InitCommon /\ recording = TRUE

\* what the caller passes: anything within the bounds, or, when the results
\* are recorded, one of a few small arguments
CallMatrices == IF recording THEN RepeatMatrices ELSE Matrices
CallPriors ==
  IF recording THEN RepeatPriors ELSE Vectors(PriorValues, MaxKmers)
CallGenus ==
  IF recording THEN RepeatGenus ELSE Vectors(GenusValues, MaxGenera)

\* the caller invokes calculate_log_probability(c, p, g)
Call ==
  /\ pc = "idle"
  /\ Len(returned) < MaxCalls
  /\ \E c \in CallMatrices : \E p \in CallPriors : \E g \in CallGenus :
       /\ kmer_genus_count' = c
       /\ word_specific_priors' = p
       /\ genus_counts' = g
  /\ n_kmers' = 0
  /\ n_genera' = 0
  /\ log_probs' = NoMatrix
  /\ j' = 0
  /\ i' = 0
  /\ genus_count_plus1' = 0
  /\ writes' = <<>>
  /\ pc' = "entry"
  /\ UNCHANGED <<recording, returned>>

\* lines 21-25 and the initialisation of the outer loop
Enter ==
  /\ pc = "entry"
  /\ n_kmers' = kmer_genus_count.nrow
  /\ n_genera' = kmer_genus_count.ncol
  /\ log_probs' = NewMatrix(n_kmers', n_genera')
  /\ writes' = [k \in 1..(n_kmers' * n_genera') |-> 0]
  /\ j' = 0
  /\ pc' = "outer"
  /\ UNCHANGED <<args, i, genus_count_plus1, recording, returned>>

\* lines 28-30 and the initialisation of the inner loop
OuterBody ==
  /\ pc = "outer"
  /\ j < n_genera
  /\ \E g \in ReadVec(genus_counts, j) :
       \E d \in GenusCountPlus1(g) : genus_count_plus1' = d
  /\ i' = 0
  /\ pc' = "inner"
  /\ UNCHANGED <<args, n_kmers, n_genera, log_probs, j, writes, recording,
                 returned>>

\* variant: log_probs shares the storage of kmer_genus_count (a shallow Rcpp
\* copy), so line 35 stores into the argument as well
InnerBody_InPlace ==
  /\ pc = "inner"
  /\ i < n_kmers
  /\ \E p \in ReadVec(word_specific_priors, i) :
       /\ log_probs' =
            MatSet(log_probs, i, j,
                   LogOfQuotient(DAdd(MatGet(kmer_genus_count, i, j), p),
                                 genus_count_plus1))
       /\ kmer_genus_count' =
            MatSet(kmer_genus_count, i, j, MatGet(log_probs', i, j))
  /\ writes' = [writes EXCEPT ![i + j * n_kmers + 1] = @ + 1]
  /\ i' = i + 1
  /\ UNCHANGED <<word_specific_priors, genus_counts, n_kmers, n_genera, j,
                 genus_count_plus1, pc, recording, returned>>

\* lines 33-35 and the increment of i
InnerBody ==
  /\ pc = "inner"
  /\ i < n_kmers
  /\ \E p \in ReadVec(word_specific_priors, i) :
       log_probs' =
         MatSet(log_probs, i, j,
                LogOfQuotient(DAdd(MatGet(kmer_genus_count, i, j), p),
                              genus_count_plus1))
  /\ writes' = [writes EXCEPT ![i + j * n_kmers + 1] = @ + 1]
  /\ i' = i + 1
  /\ UNCHANGED <<args, n_kmers, n_genera, j, genus_count_plus1, pc,
                 recording, returned>>

\* the inner loop ends: line 36, and the increment of j
InnerExit ==
  /\ pc = "inner"
  /\ ~(i < n_kmers)
  /\ j' = j + 1
  /\ i' = 0
  /\ genus_count_plus1' = 0
  /\ pc' = "outer"
  /\ UNCHANGED <<args, n_kmers, n_genera, log_probs, writes, recording,
                 returned>>

\* line 38
Return ==
  /\ pc = "outer"
  /\ ~(j < n_genera)
  /\ pc' = "done"
  /\ returned' =
       IF recording
         THEN Append(returned,
                     [counts |-> kmer_genus_count,
                      priors |-> word_specific_priors,
                      genus |-> genus_counts, result |-> log_probs])
         ELSE returned
  /\ UNCHANGED <<args, locals, writes, recording>>

\* an out-of-bounds read of genus_counts[j] or word_specific_priors(i) that
\* faults instead of returning a value
Fault ==
  /\ \/ pc = "outer" /\ j < n_genera /\ ~(j < Len(genus_counts))
     \/ pc = "inner" /\ i < n_kmers /\ ~(i < Len(word_specific_priors))
  /\ pc' = "crashed"
  /\ UNCHANGED <<args, locals, writes, recording, returned>>

\* the caller has taken the returned matrix; the arguments and the frame of
\* the finished call are gone
Resume ==
  /\ pc = "done"
  /\ kmer_genus_count' = NoMatrix
  /\ word_specific_priors' = <<>>
  /\ genus_counts' = <<>>
  /\ n_kmers' = 0
  /\ n_genera' = 0
  /\ log_probs' = NoMatrix
  /\ j' = 0
  /\ i' = 0
  /\ genus_count_plus1' = 0
  /\ writes' = <<>>
  /\ pc' = "idle"
  /\ UNCHANGED <<recording, returned>>

Next ==
  \/ Call
  \/ Enter
  \/ OuterBody
  \/ InnerBody
  \/ InnerExit
  \/ Return
  \/ Fault
  \/ Resume

Spec == Init /\ [][Next]_vars

SpecRepeat == InitRepeat /\ [][Next]_vars

\* ================================================================== claims

\* the arguments have the shapes the contract asks for
ShapeValid ==
  /\ Len(word_specific_priors) = kmer_genus_count.nrow
  /\ Len(genus_counts) = kmer_genus_count.ncol

NonNegative(x) == x.whole >= 0

AllNonNegative ==
  /\ \A k \in DOMAIN kmer_genus_count.data : NonNegative(kmer_genus_count.data[k])
  /\ \A k \in DOMAIN word_specific_priors : NonNegative(word_specific_priors[k])
  /\ \A k \in DOMAIN genus_counts : NonNegative(genus_counts[k])

Rows == 0..(kmer_genus_count.nrow - 1)
Cols == 0..(kmer_genus_count.ncol - 1)

\* counts[r][c] + priors[r] in tenths, for a row that has a prior
SumAt(r, c) ==
  Deci(DAdd(MatGet(kmer_genus_count, r, c), word_specific_priors[r + 1]))

InCall == pc \in {"entry", "outer", "inner"}

Allocated == pc \in {"outer", "inner", "done", "crashed"}

\* genus_counts[j] + 1 truncated toward zero, by cases on the total g
TruncatedSum(g) ==
  IF g.whole >= -1 THEN g.whole + 1
  ELSE IF g.frac = 0 THEN g.whole + 1 ELSE g.whole + 2

\* the total g truncated toward zero
Truncated(g) == IF g.whole < 0 /\ g.frac > 0 THEN g.whole + 1 ELSE g.whole

\* ln((c + p) / (floor(g) + 1)) for non-negative c, p, g, the denominator
\* taken as a mathematical integer
FormulaCell(c, p, g) ==
  LET n == Deci(DAdd(c, p))
  IN  IF n = 0 THEN NegInf ELSE Ln(n, (-g.whole) - 1)

\* C1: for inputs of valid shape with non-negative entries, every cell of the
\* returned matrix is ln((counts[i][j] + priors[i]) / (floor(genusTotals[j]) + 1)).
C1_FormulaProperty ==
  (pc = "done" /\ ShapeValid /\ AllNonNegative) =>
    \A r \in Rows : \A c \in Cols :
      MatGet(log_probs, r, c) =
        FormulaCell(MatGet(kmer_genus_count, r, c), word_specific_priors[r + 1],
                    genus_counts[c + 1])

C3_TruncateThenAdd ==
  (pc = "inner" /\ j < Len(genus_counts) /\ genus_counts[j + 1].frac # 0) =>
    /\ genus_count_plus1 > IntMin
    /\ genus_count_plus1 - 1 = Truncated(genus_counts[j + 1])

\* C3 as amended: for a genus total with a fractional part whose sum with 1
\* fits an int, the denominator is the sum truncated toward zero: 0 for a
\* total in (-1, 0), and trunc(genusTotals[j]) + 1 for every other total.
C3_AddThenTruncate ==
  (pc = "inner" /\ j < Len(genus_counts) /\ genus_counts[j + 1].frac # 0
     /\ genus_counts[j + 1].whole < IntMax) =>
    LET g == genus_counts[j + 1]
    IN  /\ genus_count_plus1 = TruncatedSum(g)
        /\ g.whole = -1 => genus_count_plus1 = 0
        /\ g.whole # -1 => genus_count_plus1 = Truncated(g) + 1

C3_Witness ==
  /\ pc = "inner"
  /\ j < Len(genus_counts)
  /\ genus_counts[j + 1] = D(4, 9)
  /\ genus_count_plus1 = 5

\* C4 as claimed: the denominator is 0 exactly when floor(genusTotals[j]) = -1.
C4_ZeroIffFloorMinusOne ==
  (pc = "inner" /\ j < Len(genus_counts)) =>
    (genus_count_plus1 = 0 <=> genus_counts[j + 1].whole = -1)

\* C4 as amended: for a genus total whose sum with 1 fits an int, the
\* denominator is 0 exactly when the total lies strictly between -2 and 0.
C4_ZeroIffSumTruncatesToZero ==
  (pc = "inner" /\ j < Len(genus_counts)
     /\ genus_counts[j + 1].whole < IntMax) =>
    LET g == genus_counts[j + 1]
    IN  genus_count_plus1 = 0 <=>
          (g.whole = -1 \/ (g.whole = -2 /\ g.frac > 0))

C4_Witness ==
  /\ pc = "inner"
  /\ j < Len(genus_counts)
  /\ genus_counts[j + 1] = D(-2, 5)
  /\ genus_count_plus1 = 0

\* the returned matrix has the shape of the count matrix
FullShape ==
  /\ log_probs.nrow = kmer_genus_count.nrow
  /\ log_probs.ncol = kmer_genus_count.ncol
  /\ Len(log_probs.data) = kmer_genus_count.nrow * kmer_genus_count.ncol

\* C5 as claimed: for inputs of valid shape the call never ends in an error;
\* it returns a full matrix in which a cell whose counts + priors is 0 holds
\* negative infinity and a cell whose counts + priors is negative holds NaN.
C5_ZeroAndNegativeSums ==
  ShapeValid =>
    /\ pc # "crashed"
    /\ pc = "done" =>
         /\ FullShape
         /\ \A r \in Rows : \A c \in Cols :
              /\ SumAt(r, c) = 0 => MatGet(log_probs, r, c) = NegInf
              /\ SumAt(r, c) < 0 => MatGet(log_probs, r, c) = NaN

\* C5 as amended: for inputs of valid shape the call never ends in an error
\* and returns a full matrix; in a column whose genus total plus 1 fits an
\* int, with d the truncated sum: a cell whose counts + priors is 0 holds
\* negative infinity when d # 0 and NaN when d = 0; a cell whose counts +
\* priors is negative holds NaN when d >= 0 and the logarithm of the positive
\* quotient when d < 0; a cell whose counts + priors is positive holds the
\* logarithm of the quotient when d > 0.
C5_SpecialValuesBySign ==
  ShapeValid =>
    /\ pc # "crashed"
    /\ pc = "done" =>
         /\ FullShape
         /\ \A r \in Rows : \A c \in Cols :
              genus_counts[c + 1].whole < IntMax =>
                LET n == SumAt(r, c)
                    d == TruncatedSum(genus_counts[c + 1])
                    cell == MatGet(log_probs, r, c)
                IN  /\ (n = 0 /\ d # 0) => cell = NegInf
                    /\ (n = 0 /\ d = 0) => cell = NaN
                    /\ (n < 0 /\ d >= 0) => cell = NaN
                    /\ (n < 0 /\ d < 0) => cell = Ln(-n, d)
                    /\ (n > 0 /\ d > 0) => cell = Ln(n, d)

C5_Witness ==
  /\ pc = "done"
  /\ ShapeValid
  /\ \E r \in Rows : \E c \in Cols :
       SumAt(r, c) = 0 /\ MatGet(log_probs, r, c) = NegInf
  /\ \E r \in Rows : \E c \in Cols :
       SumAt(r, c) < 0 /\ MatGet(log_probs, r, c) = NaN
  /\ \E r \in Rows : \E c \in Cols :
       SumAt(r, c) < 0 /\ MatGet(log_probs, r, c).kind = "ln"

\* C6: from its allocation on, and when it is returned, the output matrix
\* has exactly the rows and columns of the count matrix, K = 0 and G = 0
\* included.
C6_OutputShape == Allocated => FullShape

C6_Witness ==
  /\ pc = "done"
  /\ kmer_genus_count.nrow = 0
  /\ kmer_genus_count.ncol = 2
  /\ log_probs = Matrix(0, 2, <<>>)

\* C7: no step of a call, its return included, changes counts, priors or
\* genusTotals.
C7_InputsUnchanged == [][InCall => args' = args]_vars

C7_Witness ==
  /\ pc = "done"
  /\ \E k \in DOMAIN writes : writes[k] > 0

CellOutcomes(r, c) ==
  {LogOfQuotient(DAdd(MatGet(kmer_genus_count, r, c), p), d) :
     p \in ReadVec(word_specific_priors, r),
     d \in UNION {GenusCountPlus1(g) : g \in ReadVec(genus_counts, c)}}

Cells == Rows \X Cols

\* every order in which the K*G cells can be visited
VisitOrders ==
  {ord \in [1..Cardinality(Cells) -> Cells] :
     \A a \in DOMAIN ord : \A b \in DOMAIN ord : ord[a] = ord[b] => a = b}

\* the matrices that visiting the cells in the order ord can produce from ms
RECURSIVE Visit(_, _)
Visit(ord, ms) ==
  IF ord = <<>> THEN ms
  ELSE Visit(Tail(ord),
             {MatSet(m, Head(ord)[1], Head(ord)[2], v) :
                m \in ms, v \in CellOutcomes(Head(ord)[1], Head(ord)[2])})

C10_IntNeverWraps ==
  (pc = "inner" /\ j < Len(genus_counts)
     /\ NonNegative(genus_counts[j + 1])) =>
    /\ genus_count_plus1 >= 1
    /\ genus_count_plus1 - 1 = genus_counts[j + 1].whole

====
